---- MODULE Spec2Model ----
(***************************************************************************)
(* Interview agent: the voice session of backend/voice/voice_agent.py      *)
(* (entrypoint, InterviewAssistant, silence monitor, end-of-session        *)
(* feedback), the report store of backend/models/feedback.py and the       *)
(* retrieval service of backend/services/rag_service.py.                   *)
(*                                                                         *)
(* Time is kept as ages: a timestamp t is represented by time.time() - t   *)
(* in whole seconds, capped at AgeCap, so "now" is age 0 and Tick makes    *)
(* every stored timestamp one second older.                                *)
(***************************************************************************)
EXTENDS Integers, Sequences, FiniteSets, TLC

\* ------------------------------------------------------------------ bounds
AgeCap == 6
MaxTranscript == 2
MaxTeardowns == 2
MaxTopK == 2
MaxQuery == 2
MaxFrames == 2
MaxParas == 3
MaxLines == 3
MaxRooms == 2

\* ------------------------------------------------------- program constants
SilenceThreshold == 5
SleepInterval == 1
ChunkSize == 500
SeparatorLen == 2
GraceWindow == 10

\* -------------------------------------------------------------- vocabulary
Modes == {"practice", "mock-interview"}
SessionIds == {"none", "s1"}
ObsPaths == {"tts_metrics", "agent_turn", "track_unsub"}
None == <<>>
Some(a) == <<a>>
IsSet(t) == t # None
Age(t) == t[1]
OlderUpTo(t, cap) == IF IsSet(t) THEN Some(IF Age(t) < cap THEN Age(t) + 1 ELSE cap) ELSE None
Older(t) == OlderUpTo(t, AgeCap)
Times == {None} \cup {Some(a) : a \in 0..AgeCap}
Teardowns == 1..MaxTeardowns
SourceKinds == {"camera", "screen_share"}
OtherDoc == [id |-> 1, session_id |-> "s0", feedback |-> 0]

VARIABLES
  interview_mode,       \* metadata 'mode' of the job
  session_id,           \* assistant._session_id ("none": no session_id in the metadata)
  epc,                  \* position of entrypoint: init, greeting, ready, failed
  is_running,           \* session.is_running
  has_camera,           \* a camera track is published by the participant
  has_screen_share,     \* a screen-share track is published by the participant
  openings,             \* opening statements (greetings) handed to session.say
  opened_without,       \* an opening statement was handed over while a required track was absent
  transcript,           \* assistant._transcript
  user_is_speaking,     \* assistant._user_is_speaking
  last_question_time,   \* assistant._last_question_time
  is_checking_silence,  \* assistant._is_checking_silence
  mon_pc,               \* monitor_silence_continuously: off, sleep, say, done
  mon_sleep,            \* seconds left of the monitor's asyncio.sleep(1.0)
  prompts_in_flight,    \* silence prompts handed to original_say and not yet returned
  reply_pending,        \* the session is speaking an LLM reply to the last user turn
  pending_obs,          \* completion notifications of agent speech not yet delivered
  since_prompt,         \* age of the start of the last silence prompt that was spoken
  attempt_age,          \* age of the start of the current silence-prompt attempt
  last_attempt_failed,  \* the previous silence-prompt attempt raised
  prompt_parity,        \* flips at every silence prompt that was spoken
  feedback_generated,   \* the nonlocal flag of generate_feedback_on_end
  fpc,                  \* position of each generate_feedback_on_end invocation: idle, gen, save,
                        \* say, and returned as skipped (flag set), nothing (no id or transcript), done
  fsave,                \* how the save of each invocation ended: none, ok, failed, lost_ack
  store,                \* the feedback collection: a set of documents
  said_saved,           \* the invocations whose verbal summary ("... has been saved") was spoken
  qdrant_configured,    \* RAGService.aqdrant is not None
  hash_seed,            \* the string-hash seed of the process that runs RAGService
  points,               \* the Qdrant collection: a set of points, one per id
  results,              \* what the last search returned
  query_user,           \* the user_name argument of the last search
  index_ok,             \* what the last index_resume returned: none, true, false
  embed_log,            \* embed_text in the last index or search: none (not called), ok, failed
  last_op,              \* the last operation of RAGService: none, index, search
  chunk_in,             \* the text argument of the last _chunk_text call
  chunk_budget,         \* its chunk_size argument
  chunks_out,           \* what it returned
  current_user_name,    \* RAGService._current_user_name ("": None)
  tool_sessions,        \* per participant: none (no session in this process), started, bound
                        \* (its entrypoint called set_user_context)
  tool_caller,          \* the participant in whose session the tool was last called
  tool_out,             \* what search_candidate_info returned to it
  extract_in,           \* the feedback_text argument of the last _extract_sections call
  extract_out,          \* the dict it returned
  uploaded,             \* main.py: the resume ids upload_resume has handed out
  pending_resumes,      \* main.py: the keys of pending_resumes
  index_started,        \* main.py: per resume id, the index_resume tasks created
  room_requests,        \* main.py: per resume id, the create-room requests that named it
  latest_camera_frame,  \* assistant._latest_camera_frame: None or the number of the frame
  latest_screen_frame,  \* assistant._latest_screen_frame
  video_readers,        \* the source kinds for which a stream-reader task exists
  frames_written,       \* per source kind, the number of the last frame a reader wrote
  attached,             \* the images in the message of the last completed participant turn
  delivered,            \* the images attached to the turns before it
  fresh,                \* the source kinds a reader wrote since the last participant turn
  violation_age         \* age of the moment the screen share left the interview page

sessionVars == <<interview_mode, session_id, epc, is_running, has_camera, has_screen_share,
                 openings, opened_without, transcript, user_is_speaking, last_question_time,
                 is_checking_silence, mon_pc, mon_sleep, prompts_in_flight, reply_pending,
                 pending_obs, since_prompt, attempt_age, last_attempt_failed, prompt_parity>>
feedbackVars == <<feedback_generated, fpc, fsave, store, said_saved>>
chunkVars == <<chunk_in, chunk_budget, chunks_out>>
toolVars == <<current_user_name, tool_sessions, tool_caller, tool_out>>
extractVars == <<extract_in, extract_out>>
serverVars == <<uploaded, pending_resumes, index_started, room_requests>>
ragVars == <<qdrant_configured, hash_seed, points, results, query_user, index_ok,
             embed_log, last_op, chunkVars, toolVars, extractVars, serverVars>>
frameVars == <<latest_camera_frame, latest_screen_frame, video_readers, frames_written,
               attached, delivered, fresh>>
mediaVars == <<frameVars, violation_age>>
vars == <<sessionVars, feedbackVars, ragVars, mediaVars>>

IsMock == interview_mode = "mock-interview"
Entry(role, kind) == [role |-> role, kind |-> kind]

\* ---------------------------------------------------------------- initial
\* The state after InterviewAssistant.__init__ and before session.start:
\* part of every initial state.
Constructed ==
  /\ interview_mode \in Modes
  /\ epc = "init"
  /\ is_running = FALSE
  /\ openings = 0
  /\ opened_without = FALSE
  /\ transcript = <<>>
  /\ user_is_speaking = FALSE
  /\ last_question_time = None
  /\ is_checking_silence = FALSE
  /\ mon_pc = "off"
  /\ mon_sleep = 0
  /\ prompts_in_flight = 0
  /\ reply_pending = FALSE
  /\ pending_obs = {}
  /\ since_prompt = None
  /\ attempt_age = None
  /\ last_attempt_failed = FALSE
  /\ prompt_parity = FALSE
  /\ feedback_generated = FALSE
  /\ fpc = [i \in Teardowns |-> "idle"]
  /\ fsave = [i \in Teardowns |-> "none"]
  /\ said_saved = {}
  /\ latest_camera_frame = None
  /\ latest_screen_frame = None
  /\ video_readers = {}
  /\ frames_written = [kind \in SourceKinds |-> 0]
  /\ attached = {}
  /\ delivered = {}
  /\ fresh = {}
  /\ violation_age = None

\* RAGService.__init__ leaves no participant bound; nothing was called yet.
RagIdle ==
  /\ embed_log = "none"
  /\ last_op = "none"
  /\ chunk_in = <<>>
  /\ chunk_budget = ChunkSize
  /\ chunks_out = <<>>
  /\ current_user_name = ""
  /\ tool_sessions = [u \in {"A", "B"} |-> "none"]
  /\ tool_caller = ""
  /\ tool_out = [kind |-> "none", texts |-> <<>>]
  /\ extract_in = <<>>
  /\ extract_out = <<>>
  /\ uploaded = {}
  /\ pending_resumes = {}
  /\ index_started = [r \in {"r1", "r2"} |-> 0]
  /\ room_requests = [r \in {"r1", "r2"} |-> 0]

\* The state after RAGService.__init__ with QDRANT_URL configured.
RagConstructed ==
  /\ qdrant_configured = TRUE
  /\ hash_seed = 1
  /\ points = {}
  /\ results = <<>>
  /\ query_user = "nobody"
  /\ index_ok = "none"
  /\ RagIdle

\* Turn taking and silence monitoring: the tracks are published before the
\* job starts and stay, the job metadata carries a session id.
Init ==
  /\ Constructed
  /\ RagConstructed
  /\ session_id = "s1"
  /\ has_camera = TRUE
  /\ has_screen_share = TRUE
  /\ store = {}

\* The start of a session: tracks come and go, the metadata may lack a session id.
InitEntry ==
  /\ Constructed
  /\ RagConstructed
  /\ session_id \in SessionIds
  /\ has_camera \in BOOLEAN
  /\ has_screen_share \in BOOLEAN
  /\ store = {}


\* ------------------------------------------------------- media tracks
Published(kind) == IF kind = "camera" THEN has_camera ELSE has_screen_share

\* _create_video_stream(track, source): the stream of that source kind is
\* replaced (the old one closed) and a reader task is created for it.
CreateVideoStream(readers, kind) == readers \cup {kind}

\* The participant publishes or stops a camera or screen-share track; the
\* entrypoint reads the publications in check_and_subscribe_video_tracks, and
\* once the assistant has entered the room on_track_subscribed creates the
\* stream and its reader. Nothing in the program handles the end of a video track.
TrackPublished(kind) ==
  /\ IF kind = "camera"
       THEN ~has_camera /\ has_camera' = TRUE /\ UNCHANGED has_screen_share
       ELSE ~has_screen_share /\ has_screen_share' = TRUE /\ UNCHANGED has_camera
  /\ UNCHANGED <<interview_mode, session_id, epc, is_running, openings, opened_without,
                 transcript, user_is_speaking, last_question_time, is_checking_silence,
                 mon_pc, mon_sleep, prompts_in_flight, reply_pending, pending_obs,
                 since_prompt, attempt_age, last_attempt_failed, prompt_parity>>
  /\ video_readers' = IF epc # "init" THEN CreateVideoStream(video_readers, kind)
                                        ELSE video_readers
  /\ UNCHANGED <<latest_camera_frame, latest_screen_frame, frames_written, attached,
                 delivered, fresh, violation_age>>
  /\ UNCHANGED <<feedbackVars, ragVars>>

TrackUnpublished(kind) ==
  /\ IF kind = "camera"
       THEN has_camera /\ has_camera' = FALSE /\ UNCHANGED has_screen_share
       ELSE has_screen_share /\ has_screen_share' = FALSE /\ UNCHANGED has_camera
  /\ UNCHANGED <<interview_mode, session_id, epc, is_running, openings, opened_without,
                 transcript, user_is_speaking, last_question_time, is_checking_silence,
                 mon_pc, mon_sleep, prompts_in_flight, reply_pending, pending_obs,
                 since_prompt, attempt_age, last_attempt_failed, prompt_parity>>
  /\ UNCHANGED <<feedbackVars, ragVars, mediaVars>>

\* ---------------------------------------------------------- entrypoint
\* An entrypoint that starts the silence monitor in every mode.
EntryStartMonitorAlways ==
  /\ epc = "init"
  /\ is_running' = TRUE
  /\ mon_pc' = "sleep" /\ mon_sleep' = SleepInterval
  /\ openings' = openings + 1
  /\ opened_without' = (IsMock /\ ~(has_camera /\ has_screen_share))
  /\ epc' = "greeting"
  /\ UNCHANGED <<interview_mode, session_id, has_camera, has_screen_share, transcript,
                 user_is_speaking, last_question_time, is_checking_silence,
                 prompts_in_flight, reply_pending, pending_obs, since_prompt, attempt_age,
                 last_attempt_failed, prompt_parity>>
  /\ video_readers' = {kind \in SourceKinds : Published(kind)}
  /\ UNCHANGED <<latest_camera_frame, latest_screen_frame, frames_written, attached,
                 delivered, fresh, violation_age>>
  /\ UNCHANGED <<feedbackVars, ragVars>>

\* An entrypoint that, in practice mode, hands over the greeting only when a
\* camera track and a screen-share track are published.
EntryStartGated ==
  /\ epc = "init"
  /\ is_running' = TRUE
  /\ IF IsMock
       THEN mon_pc' = "sleep" /\ mon_sleep' = SleepInterval
       ELSE UNCHANGED <<mon_pc, mon_sleep>>
  /\ openings' = IF IsMock \/ (has_camera /\ has_screen_share) THEN openings + 1 ELSE openings
  /\ opened_without' = (IsMock /\ ~(has_camera /\ has_screen_share))
  /\ epc' = "greeting"
  /\ UNCHANGED <<interview_mode, session_id, has_camera, has_screen_share, transcript,
                 user_is_speaking, last_question_time, is_checking_silence,
                 prompts_in_flight, reply_pending, pending_obs, since_prompt, attempt_age,
                 last_attempt_failed, prompt_parity>>
  /\ video_readers' = {kind \in SourceKinds : Published(kind)}
  /\ UNCHANGED <<latest_camera_frame, latest_screen_frame, frames_written, attached,
                 delivered, fresh, violation_age>>
  /\ UNCHANGED <<feedbackVars, ragVars>>

\* session.start() returns and entrypoint runs without suspension up to the
\* call of session.say(greeting): on_enter creates a stream reader for every
\* video track already published, the TTS-metrics handler is registered and
\* the silence monitor task is created (mock-interview only), the published
\* tracks are read, and the greeting is handed to session.say whatever they are.
EntryStart ==
  /\ epc = "init"
  /\ is_running' = TRUE
  /\ IF IsMock
       THEN mon_pc' = "sleep" /\ mon_sleep' = SleepInterval
       ELSE UNCHANGED <<mon_pc, mon_sleep>>
  /\ openings' = openings + 1
  /\ opened_without' = (IsMock /\ ~(has_camera /\ has_screen_share))
  /\ epc' = "greeting"
  /\ UNCHANGED <<interview_mode, session_id, has_camera, has_screen_share, transcript,
                 user_is_speaking, last_question_time, is_checking_silence,
                 prompts_in_flight, reply_pending, pending_obs, since_prompt, attempt_age,
                 last_attempt_failed, prompt_parity>>
  /\ video_readers' = {kind \in SourceKinds : Published(kind)}
  /\ UNCHANGED <<latest_camera_frame, latest_screen_frame, frames_written, attached,
                 delivered, fresh, violation_age>>
  /\ UNCHANGED <<feedbackVars, ragVars>>

\* say_with_tracking for a text that is not the silence prompt: what the
\* wrapper does after original_say has returned.
SayTracked(tr, kind) == tr \o <<Entry("assistant", kind)>>

\* session.say(greeting) returns. In mock-interview mode session.say is
\* say_with_tracking; then entrypoint appends the greeting to the transcript
\* and registers the shutdown hook.
GreetingDone(obs) ==
  /\ epc = "greeting"
  /\ epc' = "ready"
  /\ IF IsMock
       THEN /\ transcript' = SayTracked(transcript, "greeting") \o <<Entry("assistant", "greeting")>>
            /\ user_is_speaking' = FALSE
            /\ last_question_time' = Some(0)
       ELSE UNCHANGED <<transcript, user_is_speaking, last_question_time>>
  /\ pending_obs' = pending_obs \cup obs
  /\ UNCHANGED <<interview_mode, session_id, is_running, has_camera, has_screen_share,
                 openings, opened_without, is_checking_silence, mon_pc, mon_sleep,
                 prompts_in_flight, reply_pending, since_prompt, attempt_age,
                 last_attempt_failed, prompt_parity>>
  /\ UNCHANGED <<feedbackVars, ragVars, mediaVars>>

\* session.say(greeting) raises: entrypoint ends before the shutdown hook is registered.
GreetingFailed ==
  /\ epc = "greeting"
  /\ epc' = "failed"
  /\ UNCHANGED <<interview_mode, session_id, is_running, has_camera, has_screen_share,
                 openings, opened_without, transcript, user_is_speaking, last_question_time,
                 is_checking_silence, mon_pc, mon_sleep, prompts_in_flight, reply_pending,
                 pending_obs, since_prompt, attempt_age, last_attempt_failed, prompt_parity>>
  /\ UNCHANGED <<feedbackVars, ragVars, mediaVars>>

\* The room disconnects: the session stops running.
SessionClose ==
  /\ is_running
  /\ is_running' = FALSE
  /\ UNCHANGED <<interview_mode, session_id, epc, has_camera, has_screen_share, openings,
                 opened_without, transcript, user_is_speaking, last_question_time,
                 is_checking_silence, mon_pc, mon_sleep, prompts_in_flight, reply_pending,
                 pending_obs, since_prompt, attempt_age, last_attempt_failed, prompt_parity>>
  /\ UNCHANGED <<feedbackVars, ragVars, mediaVars>>

\* ------------------------------------------------------------- turns
\* A stream-reader task (read_camera_stream, read_screen_stream) receives the
\* next frame of its track and stores it as the latest frame of its kind.
\* The task runs as long as its stream yields frames: no code cancels it.
ReaderWrite(kind) ==
  /\ kind \in video_readers
  /\ Published(kind)
  /\ frames_written[kind] < MaxFrames
  /\ frames_written' = [frames_written EXCEPT ![kind] = @ + 1]
  /\ IF kind = "camera"
       THEN /\ latest_camera_frame' = Some(frames_written[kind] + 1)
            /\ UNCHANGED latest_screen_frame
       ELSE /\ latest_screen_frame' = Some(frames_written[kind] + 1)
            /\ UNCHANGED latest_camera_frame
  /\ fresh' = fresh \cup {kind}
  /\ UNCHANGED <<video_readers, attached, delivered, violation_age>>
  /\ UNCHANGED <<sessionVars, feedbackVars, ragVars>>

\* The images on_user_turn_completed appends to the message: the camera
\* frame when there is one, the screen frame when there is one and the mode
\* is mock-interview.
ImagesFor(camera_frame, screen_frame, mode) ==
  (IF IsSet(camera_frame) THEN {<<"camera", Age(camera_frame)>>} ELSE {})
    \cup (IF IsSet(screen_frame) /\ mode = "mock-interview"
            THEN {<<"screen_share", Age(screen_frame)>>} ELSE {})

\* A frame part that appends the frames and leaves them in their slots.
AttachFramesNoClear ==
  /\ attached' = ImagesFor(latest_camera_frame, latest_screen_frame, interview_mode)
  /\ delivered' = delivered \cup attached
  /\ fresh' = {}
  /\ UNCHANGED <<latest_camera_frame, latest_screen_frame, video_readers, frames_written,
                 violation_age>>

\* The frame part of on_user_turn_completed: each frame that is appended to
\* the message is cleared from its slot. The handler has no await, so no
\* reader runs in between.
AttachLatestFrames ==
  /\ attached' = ImagesFor(latest_camera_frame, latest_screen_frame, interview_mode)
  /\ latest_camera_frame' = None
  /\ latest_screen_frame' = IF IsMock THEN None ELSE latest_screen_frame
  /\ delivered' = delivered \cup attached
  /\ fresh' = {}
  /\ UNCHANGED <<video_readers, frames_written, violation_age>>

\* A turn handler that marks the participant as speaking and leaves the timestamp.
OnUserTurnKeepsTimestamp(has_text) ==
  /\ is_running
  /\ epc # "init"
  /\ (IsMock /\ has_text) => Len(transcript) < MaxTranscript
  /\ IF IsMock
       THEN /\ transcript' = IF has_text THEN Append(transcript, Entry("user", "turn"))
                                         ELSE transcript
            /\ user_is_speaking' = TRUE
       ELSE UNCHANGED <<transcript, user_is_speaking>>
  /\ reply_pending' = TRUE
  /\ UNCHANGED <<interview_mode, session_id, epc, is_running, has_camera, has_screen_share,
                 openings, opened_without, is_checking_silence, mon_pc, mon_sleep,
                 prompts_in_flight, pending_obs, since_prompt, attempt_age,
                 last_attempt_failed, prompt_parity, last_question_time>>
  /\ AttachLatestFrames
  /\ UNCHANGED <<feedbackVars, ragVars>>

\* InterviewAssistant.on_user_turn_completed; has_text: the message carries text.
\* The session then generates and speaks the LLM reply.
OnUserTurnCompleted(has_text) ==
  /\ is_running
  /\ epc # "init"
  /\ (IsMock /\ has_text) => Len(transcript) < MaxTranscript
  /\ IF IsMock
       THEN /\ transcript' = IF has_text THEN Append(transcript, Entry("user", "turn"))
                                         ELSE transcript
            /\ user_is_speaking' = TRUE
            /\ last_question_time' = None
       ELSE UNCHANGED <<transcript, user_is_speaking, last_question_time>>
  /\ reply_pending' = TRUE
  /\ UNCHANGED <<interview_mode, session_id, epc, is_running, has_camera, has_screen_share,
                 openings, opened_without, is_checking_silence, mon_pc, mon_sleep,
                 prompts_in_flight, pending_obs, since_prompt, attempt_age,
                 last_attempt_failed, prompt_parity>>
  /\ AttachLatestFrames
  /\ UNCHANGED <<feedbackVars, ragVars>>

\* The reply to the last user turn has been spoken; obs: the notifications
\* the framework will deliver for it.
AgentReplyDone(obs) ==
  /\ is_running
  /\ reply_pending
  /\ obs # {}
  /\ reply_pending' = FALSE
  /\ pending_obs' = pending_obs \cup obs
  /\ UNCHANGED <<interview_mode, session_id, epc, is_running, has_camera, has_screen_share,
                 openings, opened_without, transcript, user_is_speaking, last_question_time,
                 is_checking_silence, mon_pc, mon_sleep, prompts_in_flight, since_prompt,
                 attempt_age, last_attempt_failed, prompt_parity>>
  /\ UNCHANGED <<feedbackVars, ragVars, mediaVars>>

\* on_metrics_collected with a TTSMetrics event (registered in mock-interview mode only).
OnMetricsCollected ==
  /\ "tts_metrics" \in pending_obs
  /\ pending_obs' = pending_obs \ {"tts_metrics"}
  /\ IF IsMock
       THEN user_is_speaking' = FALSE /\ last_question_time' = Some(0)
       ELSE UNCHANGED <<user_is_speaking, last_question_time>>
  /\ UNCHANGED <<interview_mode, session_id, epc, is_running, has_camera, has_screen_share,
                 openings, opened_without, transcript, is_checking_silence, mon_pc,
                 mon_sleep, prompts_in_flight, reply_pending, since_prompt, attempt_age,
                 last_attempt_failed, prompt_parity>>
  /\ UNCHANGED <<feedbackVars, ragVars, mediaVars>>

\* A handler that keeps one assistant entry per turn by writing over the last entry.
OnAgentTurnReplacesLast(has_text) ==
  /\ "agent_turn" \in pending_obs
  /\ (IsMock /\ has_text) => Len(transcript) < MaxTranscript
  /\ pending_obs' = pending_obs \ {"agent_turn"}
  /\ IF IsMock
       THEN /\ last_question_time' = Some(0)
            /\ transcript' = IF has_text
                               THEN IF transcript = <<>>
                                      THEN <<Entry("assistant", "reply")>>
                                      ELSE [transcript EXCEPT ![Len(transcript)] =
                                              Entry("assistant", "reply")]
                               ELSE transcript
       ELSE UNCHANGED <<last_question_time, transcript>>
  /\ UNCHANGED <<interview_mode, session_id, epc, is_running, has_camera, has_screen_share,
                 openings, opened_without, user_is_speaking, is_checking_silence, mon_pc,
                 mon_sleep, prompts_in_flight, reply_pending, since_prompt, attempt_age,
                 last_attempt_failed, prompt_parity>>
  /\ UNCHANGED <<feedbackVars, ragVars, mediaVars>>

\* InterviewAssistant.on_agent_turn_completed; has_text: the last message carries text.
OnAgentTurnCompleted(has_text) ==
  /\ "agent_turn" \in pending_obs
  /\ (IsMock /\ has_text) => Len(transcript) < MaxTranscript
  /\ pending_obs' = pending_obs \ {"agent_turn"}
  /\ IF IsMock
       THEN /\ last_question_time' = Some(0)
            /\ transcript' = IF has_text THEN Append(transcript, Entry("assistant", "reply"))
                                         ELSE transcript
       ELSE UNCHANGED <<last_question_time, transcript>>
  /\ UNCHANGED <<interview_mode, session_id, epc, is_running, has_camera, has_screen_share,
                 openings, opened_without, user_is_speaking, is_checking_silence, mon_pc,
                 mon_sleep, prompts_in_flight, reply_pending, since_prompt, attempt_age,
                 last_attempt_failed, prompt_parity>>
  /\ UNCHANGED <<feedbackVars, ragVars, mediaVars>>

\* on_track_unsubscribed_audio of on_enter for the agent's own audio track
\* (registered in mock-interview mode only).
OnTrackUnsubscribedAudio ==
  /\ "track_unsub" \in pending_obs
  /\ pending_obs' = pending_obs \ {"track_unsub"}
  /\ IF IsMock
       THEN last_question_time' = Some(0)
       ELSE UNCHANGED last_question_time
  /\ UNCHANGED <<interview_mode, session_id, epc, is_running, has_camera, has_screen_share,
                 openings, opened_without, transcript, user_is_speaking, is_checking_silence,
                 mon_pc, mon_sleep, prompts_in_flight, reply_pending, since_prompt,
                 attempt_age, last_attempt_failed, prompt_parity>>
  /\ UNCHANGED <<feedbackVars, ragVars, mediaVars>>


\* ---------------------------------------------------- silence monitor
\* The test of monitor_silence_continuously that decides to prompt:
\* a timestamp is set, no check is in progress, and it is 5 seconds old.
SilenceDue ==
  /\ IsSet(last_question_time)
  /\ ~is_checking_silence
  /\ Age(last_question_time) >= SilenceThreshold

\* A monitor that starts the prompt as a task of its own and goes on looping.
MonitorIterationDetached ==
  /\ mon_pc = "sleep"
  /\ mon_sleep = 0
  /\ mon_sleep' = SleepInterval
  /\ IF ~user_is_speaking /\ is_running /\ SilenceDue
       THEN /\ prompts_in_flight' = prompts_in_flight + 1
            /\ attempt_age' = Some(0)
            /\ last_attempt_failed' = FALSE
       ELSE UNCHANGED <<prompts_in_flight, attempt_age, last_attempt_failed>>
  /\ UNCHANGED <<mon_pc, is_checking_silence>>
  /\ UNCHANGED <<interview_mode, session_id, epc, is_running, has_camera, has_screen_share,
                 openings, opened_without, transcript, user_is_speaking, last_question_time,
                 reply_pending, pending_obs, since_prompt, prompt_parity>>
  /\ UNCHANGED <<feedbackVars, ragVars, mediaVars>>

\* A monitor that does not look at session.is_running.
MonitorIterationNoRunningTest ==
  /\ mon_pc = "sleep"
  /\ mon_sleep = 0
  /\ IF user_is_speaking
       THEN /\ mon_sleep' = SleepInterval
            /\ UNCHANGED <<mon_pc, is_checking_silence, prompts_in_flight, attempt_age,
                           last_attempt_failed>>
       ELSE IF SilenceDue
         THEN /\ is_checking_silence' = TRUE
              /\ prompts_in_flight' = prompts_in_flight + 1
              /\ mon_pc' = "say"
              /\ attempt_age' = Some(0)
              /\ last_attempt_failed' = FALSE
              /\ UNCHANGED mon_sleep
         ELSE /\ mon_sleep' = SleepInterval
              /\ UNCHANGED <<mon_pc, is_checking_silence, prompts_in_flight, attempt_age,
                             last_attempt_failed>>
  /\ UNCHANGED <<interview_mode, session_id, epc, is_running, has_camera, has_screen_share,
                 openings, opened_without, transcript, user_is_speaking, last_question_time,
                 reply_pending, pending_obs, since_prompt, prompt_parity>>
  /\ UNCHANGED <<feedbackVars, ragVars, mediaVars>>

\* One iteration of the monitor loop after asyncio.sleep(1.0) has returned,
\* up to the next suspension (the next sleep, or the await of original_say).
MonitorIteration ==
  /\ mon_pc = "sleep"
  /\ mon_sleep = 0
  /\ IF user_is_speaking
       THEN /\ mon_sleep' = SleepInterval
            /\ UNCHANGED <<mon_pc, is_checking_silence, prompts_in_flight, attempt_age,
                           last_attempt_failed>>
       ELSE IF ~is_running
         THEN /\ mon_pc' = "done"
              /\ UNCHANGED <<mon_sleep, is_checking_silence, prompts_in_flight, attempt_age,
                             last_attempt_failed>>
         ELSE IF SilenceDue
           THEN /\ is_checking_silence' = TRUE
                /\ prompts_in_flight' = prompts_in_flight + 1
                /\ mon_pc' = "say"
                /\ attempt_age' = Some(0)
                /\ last_attempt_failed' = FALSE
                /\ UNCHANGED mon_sleep
           ELSE /\ mon_sleep' = SleepInterval
                /\ UNCHANGED <<mon_pc, is_checking_silence, prompts_in_flight, attempt_age,
                               last_attempt_failed>>
  /\ UNCHANGED <<interview_mode, session_id, epc, is_running, has_camera, has_screen_share,
                 openings, opened_without, transcript, user_is_speaking, last_question_time,
                 reply_pending, pending_obs, since_prompt, prompt_parity>>
  /\ UNCHANGED <<feedbackVars, ragVars, mediaVars>>

\* A prompt completion that does not re-arm the timestamp.
PromptDoneNoRearm(obs) ==
  /\ mon_pc = "say"
  /\ prompts_in_flight' = prompts_in_flight - 1
  /\ is_checking_silence' = FALSE
  /\ mon_pc' = "sleep"
  /\ mon_sleep' = SleepInterval
  /\ since_prompt' = attempt_age
  /\ attempt_age' = None
  /\ prompt_parity' = ~prompt_parity
  /\ pending_obs' = pending_obs \cup obs
  /\ UNCHANGED <<interview_mode, session_id, epc, is_running, has_camera, has_screen_share,
                 openings, opened_without, transcript, user_is_speaking, reply_pending,
                 last_attempt_failed, last_question_time>>
  /\ UNCHANGED <<feedbackVars, ragVars, mediaVars>>

\* A prompt completion without the finally clause: the flag stays set.
PromptDoneKeepsFlag(obs) ==
  /\ mon_pc = "say"
  /\ prompts_in_flight' = prompts_in_flight - 1
  /\ last_question_time' = Some(0)
  /\ mon_pc' = "sleep"
  /\ mon_sleep' = SleepInterval
  /\ since_prompt' = attempt_age
  /\ attempt_age' = None
  /\ prompt_parity' = ~prompt_parity
  /\ pending_obs' = pending_obs \cup obs
  /\ UNCHANGED <<interview_mode, session_id, epc, is_running, has_camera, has_screen_share,
                 openings, opened_without, transcript, user_is_speaking, reply_pending,
                 last_attempt_failed, is_checking_silence>>
  /\ UNCHANGED <<feedbackVars, ragVars, mediaVars>>

\* original_say("Are you still there? Can you hear me?") returns: the
\* timestamp is re-armed, the finally clause clears the flag, the loop sleeps.
PromptDone(obs) ==
  /\ mon_pc = "say"
  /\ prompts_in_flight' = prompts_in_flight - 1
  /\ last_question_time' = Some(0)
  /\ is_checking_silence' = FALSE
  /\ mon_pc' = "sleep"
  /\ mon_sleep' = SleepInterval
  /\ since_prompt' = attempt_age
  /\ attempt_age' = None
  /\ prompt_parity' = ~prompt_parity
  /\ pending_obs' = pending_obs \cup obs
  /\ UNCHANGED <<interview_mode, session_id, epc, is_running, has_camera, has_screen_share,
                 openings, opened_without, transcript, user_is_speaking, reply_pending,
                 last_attempt_failed>>
  /\ UNCHANGED <<feedbackVars, ragVars, mediaVars>>

\* A failure handler that re-arms the timestamp as a completed prompt does.
PromptFailedRearms ==
  /\ mon_pc = "say"
  /\ prompts_in_flight' = prompts_in_flight - 1
  /\ is_checking_silence' = FALSE
  /\ attempt_age' = None
  /\ last_attempt_failed' = TRUE
  /\ last_question_time' = Some(0)
  /\ IF is_running
       THEN mon_pc' = "sleep" /\ mon_sleep' = SleepInterval
       ELSE mon_pc' = "done" /\ UNCHANGED mon_sleep
  /\ UNCHANGED <<interview_mode, session_id, epc, is_running, has_camera, has_screen_share,
                 openings, opened_without, transcript, user_is_speaking,
                 reply_pending, pending_obs, since_prompt, prompt_parity>>
  /\ UNCHANGED <<feedbackVars, ragVars, mediaVars>>

\* original_say raises: the timestamp is left as it was, the finally clause
\* clears the flag; the loop ends when the error says the session is closing
\* (the session is no longer running) and sleeps otherwise.
PromptFailed ==
  /\ mon_pc = "say"
  /\ prompts_in_flight' = prompts_in_flight - 1
  /\ is_checking_silence' = FALSE
  /\ attempt_age' = None
  /\ last_attempt_failed' = TRUE
  /\ IF is_running
       THEN mon_pc' = "sleep" /\ mon_sleep' = SleepInterval
       ELSE mon_pc' = "done" /\ UNCHANGED mon_sleep
  /\ UNCHANGED <<interview_mode, session_id, epc, is_running, has_camera, has_screen_share,
                 openings, opened_without, transcript, user_is_speaking, last_question_time,
                 reply_pending, pending_obs, since_prompt, prompt_parity>>
  /\ UNCHANGED <<feedbackVars, ragVars, mediaVars>>

\* One second passes. The monitor wakes when its sleep is over, so time does
\* not pass while an iteration is due.
Tick ==
  /\ epc # "init"
  /\ ~(mon_pc = "sleep" /\ mon_sleep = 0)
  /\ last_question_time' = Older(last_question_time)
  /\ since_prompt' = Older(since_prompt)
  /\ attempt_age' = Older(attempt_age)
  /\ mon_sleep' = IF mon_pc = "sleep" THEN mon_sleep - 1 ELSE mon_sleep
  /\ UNCHANGED <<interview_mode, session_id, epc, is_running, has_camera, has_screen_share,
                 openings, opened_without, transcript, user_is_speaking, is_checking_silence,
                 mon_pc, prompts_in_flight, reply_pending, pending_obs, last_attempt_failed,
                 prompt_parity>>
  /\ violation_age' = OlderUpTo(violation_age, 2 * GraceWindow)
  /\ UNCHANGED <<feedbackVars, ragVars, frameVars>>

\* ------------------------------------------------------- specification
Next ==
  \/ EntryStart
  \/ \E obs \in SUBSET ObsPaths : GreetingDone(obs)
  \/ GreetingFailed
  \/ SessionClose
  \/ \E has_text \in BOOLEAN : OnUserTurnCompleted(has_text)
  \/ \E obs \in SUBSET ObsPaths : AgentReplyDone(obs)
  \/ OnMetricsCollected
  \/ \E has_text \in BOOLEAN : OnAgentTurnCompleted(has_text)
  \/ OnTrackUnsubscribedAudio
  \/ MonitorIteration
  \/ \E obs \in SUBSET ObsPaths : PromptDone(obs)
  \/ PromptFailed
  \/ Tick

Spec == Init /\ [][Next]_vars

NextEntry ==
  \/ \E kind \in {"camera", "screen_share"} : TrackPublished(kind)
  \/ \E kind \in {"camera", "screen_share"} : TrackUnpublished(kind)
  \/ EntryStart
  \/ \E obs \in SUBSET ObsPaths : GreetingDone(obs)
  \/ GreetingFailed
  \/ SessionClose
  \/ \E has_text \in BOOLEAN : OnUserTurnCompleted(has_text)
  \/ \E obs \in SUBSET ObsPaths : AgentReplyDone(obs)
  \/ OnMetricsCollected
  \/ \E has_text \in BOOLEAN : OnAgentTurnCompleted(has_text)
  \/ OnTrackUnsubscribedAudio

SpecEntry == InitEntry /\ [][NextEntry]_vars

\* Frames and turns: the readers write while the participant takes turns,
\* tracks come and go, the session may close.
NextFrames ==
  \/ EntryStart
  \/ \E obs \in {{}} : GreetingDone(obs)
  \/ SessionClose
  \/ \E kind \in SourceKinds : TrackPublished(kind)
  \/ \E kind \in SourceKinds : TrackUnpublished(kind)
  \/ \E kind \in SourceKinds : ReaderWrite(kind)
  \/ \E has_text \in BOOLEAN : OnUserTurnCompleted(has_text)

SpecFrames == Init /\ [][NextFrames]_vars

\* ------------------------------------------------------ screen content
\* The participant's screen share leaves the interview application page
\* (another tab, another application), and comes back to it. The program
\* keeps no record of it: _last_screen_content_hash is set to None at
\* construction and never used, and the instructions of MOCK_INTERVIEW_PROMPT
\* leave warnings and termination to the language model.
ScreenLeavesPage ==
  /\ epc # "init"
  /\ has_screen_share
  /\ ~IsSet(violation_age)
  /\ violation_age' = Some(0)
  /\ UNCHANGED <<sessionVars, feedbackVars, ragVars, frameVars>>

ScreenReturns ==
  /\ IsSet(violation_age)
  /\ violation_age' = None
  /\ UNCHANGED <<sessionVars, feedbackVars, ragVars, frameVars>>

\* A session in which the participant stays silent while the screen
\* content changes.
NextCompliance ==
  \/ EntryStart
  \/ \E obs \in {{}, {"tts_metrics"}} : GreetingDone(obs)
  \/ SessionClose
  \/ OnMetricsCollected
  \/ MonitorIteration
  \/ \E obs \in {{}} : PromptDone(obs)
  \/ PromptFailed
  \/ Tick
  \/ ScreenLeavesPage
  \/ ScreenReturns

SpecCompliance == Init /\ [][NextCompliance]_vars

\* ------------------------------------------------- the end of a session
\* A session with participant turns up to its end, under the scheduling of
\* the event loop: time passes, the monitor runs when its sleep is over, a
\* call of say returns or raises, a pending notification is delivered.
NextEnd ==
  \/ EntryStart
  \/ \E obs \in {{}} : GreetingDone(obs)
  \/ SessionClose
  \/ \E has_text \in {FALSE} : OnUserTurnCompleted(has_text)
  \/ \E obs \in {{"tts_metrics"}, {"agent_turn"}} : AgentReplyDone(obs)
  \/ OnMetricsCollected
  \/ \E has_text \in {FALSE} : OnAgentTurnCompleted(has_text)
  \/ MonitorIteration
  \/ \E obs \in {{}} : PromptDone(obs)
  \/ PromptFailed
  \/ Tick

FairEnd ==
  /\ Init
  /\ [][NextEnd]_vars
  /\ WF_vars(Tick)
  /\ WF_vars(MonitorIteration)
  /\ WF_vars(PromptFailed \/ \E obs \in {{}} : PromptDone(obs))
  /\ WF_vars(OnMetricsCollected)
  /\ WF_vars(\E has_text \in {FALSE} : OnAgentTurnCompleted(has_text))


\* ------------------------------------------------ end-of-session report
DocsOf(st, sid) == {d \in st : d.session_id = sid}
FreshId(st) == IF st = {} THEN 1 ELSE 1 + (CHOOSE m \in {d.id : d \in st} : \A d \in st : d.id <= m)

\* A save that inserts whatever the collection holds.
SaveFeedbackInserts(st, sid, data) ==
  st \cup {[id |-> FreshId(st), session_id |-> sid, feedback |-> data]}

\* collection.update_one({"session_id": sid}, {"$set": document}, upsert=True)
\* of FeedbackModel.save_feedback: one matching document is updated, and a
\* document is inserted only when none matches.
SaveFeedback(st, sid, data) ==
  IF DocsOf(st, sid) # {}
    THEN LET d == CHOOSE x \in DocsOf(st, sid) : \A y \in DocsOf(st, sid) : x.id <= y.id
         IN  (st \ {d}) \cup {[d EXCEPT !.feedback = data]}
    ELSE st \cup {[id |-> FreshId(st), session_id |-> sid, feedback |-> data]}

\* A teardown that does not look at the session id.
TeardownStartAnyIdentity(i) ==
  /\ IsMock
  /\ epc = "ready"
  /\ ~is_running
  /\ fpc[i] = "idle"
  /\ IF feedback_generated
       THEN fpc' = [fpc EXCEPT ![i] = "skipped"] /\ UNCHANGED feedback_generated
       ELSE IF Len(transcript) > 0
         THEN fpc' = [fpc EXCEPT ![i] = "gen"] /\ feedback_generated' = TRUE
         ELSE fpc' = [fpc EXCEPT ![i] = "nothing"] /\ UNCHANGED feedback_generated
  /\ UNCHANGED <<fsave, store, said_saved>>
  /\ UNCHANGED <<sessionVars, ragVars, mediaVars>>

\* The job context shuts down (or a duplicate of that signal arrives) after
\* the hook was registered: on_shutdown calls generate_feedback_on_end, which
\* runs up to its first suspension, the await of generate_feedback.
TeardownStart(i) ==
  /\ IsMock
  /\ epc = "ready"
  /\ ~is_running
  /\ fpc[i] = "idle"
  /\ IF feedback_generated
       THEN fpc' = [fpc EXCEPT ![i] = "skipped"] /\ UNCHANGED feedback_generated
       ELSE IF session_id # "none" /\ Len(transcript) > 0
         THEN fpc' = [fpc EXCEPT ![i] = "gen"] /\ feedback_generated' = TRUE
         ELSE fpc' = [fpc EXCEPT ![i] = "nothing"] /\ UNCHANGED feedback_generated
  /\ UNCHANGED <<fsave, store, said_saved>>
  /\ UNCHANGED <<sessionVars, ragVars, mediaVars>>

\* FeedbackService.generate_feedback returns the feedback data.
GenerateDone(i) ==
  /\ fpc[i] = "gen"
  /\ fpc' = [fpc EXCEPT ![i] = "save"]
  /\ UNCHANGED <<feedback_generated, fsave, store, said_saved>>
  /\ UNCHANGED <<sessionVars, ragVars, mediaVars>>

\* FeedbackService.generate_feedback raises: the outer handler resets the flag.
GenerateFailed(i) ==
  /\ fpc[i] = "gen"
  /\ fpc' = [fpc EXCEPT ![i] = "done"]
  /\ feedback_generated' = FALSE
  /\ UNCHANGED <<fsave, store, said_saved>>
  /\ UNCHANGED <<sessionVars, ragVars, mediaVars>>

\* get_database, create_indexes and save_feedback return.
SaveDone(i) ==
  /\ fpc[i] = "save"
  /\ store' = SaveFeedback(store, session_id, i)
  /\ fsave' = [fsave EXCEPT ![i] = "ok"]
  /\ fpc' = [fpc EXCEPT ![i] = "say"]
  /\ UNCHANGED <<feedback_generated, said_saved>>
  /\ UNCHANGED <<sessionVars, ragVars, mediaVars>>

\* A save failure that leaves the flag set.
SaveFailedKeepsFlag(i, applied) ==
  /\ fpc[i] = "save"
  /\ store' = IF applied THEN SaveFeedback(store, session_id, i) ELSE store
  /\ fsave' = [fsave EXCEPT ![i] = IF applied THEN "lost_ack" ELSE "failed"]
  /\ fpc' = [fpc EXCEPT ![i] = "say"]
  /\ UNCHANGED <<feedback_generated, said_saved>>
  /\ UNCHANGED <<sessionVars, ragVars, mediaVars>>

\* One of them raises: the inner handler resets the flag and the function goes
\* on to the verbal summary. applied: update_one raised after the server had
\* applied the write (the acknowledgement was lost).
SaveFailed(i, applied) ==
  /\ fpc[i] = "save"
  /\ store' = IF applied THEN SaveFeedback(store, session_id, i) ELSE store
  /\ fsave' = [fsave EXCEPT ![i] = IF applied THEN "lost_ack" ELSE "failed"]
  /\ feedback_generated' = FALSE
  /\ fpc' = [fpc EXCEPT ![i] = "say"]
  /\ UNCHANGED said_saved
  /\ UNCHANGED <<sessionVars, ragVars, mediaVars>>

\* session.say(summary) returns; session.say is say_with_tracking.
SummaryDone(i) ==
  /\ fpc[i] = "say"
  /\ fpc' = [fpc EXCEPT ![i] = "done"]
  /\ said_saved' = said_saved \cup {i}
  /\ transcript' = SayTracked(transcript, "summary")
  /\ user_is_speaking' = FALSE
  /\ last_question_time' = Some(0)
  /\ UNCHANGED <<feedback_generated, fsave, store>>
  /\ UNCHANGED <<interview_mode, session_id, epc, is_running, has_camera, has_screen_share,
                 openings, opened_without, is_checking_silence, mon_pc, mon_sleep,
                 prompts_in_flight, reply_pending, pending_obs, since_prompt, attempt_age,
                 last_attempt_failed, prompt_parity>>
  /\ UNCHANGED <<ragVars, mediaVars>>

\* A summary failure handled like the other failures: the flag is reset.
SummaryFailedResets(i) ==
  /\ fpc[i] = "say"
  /\ fpc' = [fpc EXCEPT ![i] = "done"]
  /\ feedback_generated' = FALSE
  /\ UNCHANGED <<fsave, store, said_saved>>
  /\ UNCHANGED <<sessionVars, ragVars, mediaVars>>

\* session.say(summary) raises: logged, nothing else.
SummaryFailed(i) ==
  /\ fpc[i] = "say"
  /\ fpc' = [fpc EXCEPT ![i] = "done"]
  /\ UNCHANGED <<feedback_generated, fsave, store, said_saved>>
  /\ UNCHANGED <<sessionVars, ragVars, mediaVars>>

\* A session and the shutdown signals that follow it; the report store may
\* already hold the report of another session.
InitFeedback ==
  /\ Constructed
  /\ RagConstructed
  /\ session_id \in SessionIds
  /\ has_camera = TRUE
  /\ has_screen_share = TRUE
  /\ store \in {{}, {OtherDoc}}

NextFeedback ==
  \/ EntryStart
  \/ \E obs \in {{}} : GreetingDone(obs)
  \/ GreetingFailed
  \/ SessionClose
  \/ \E has_text \in BOOLEAN : OnUserTurnCompleted(has_text)
  \/ \E i \in Teardowns : TeardownStart(i)
  \/ \E i \in Teardowns : GenerateDone(i)
  \/ \E i \in Teardowns : GenerateFailed(i)
  \/ \E i \in Teardowns : SaveDone(i)
  \/ \E i \in Teardowns, applied \in BOOLEAN : SaveFailed(i, applied)
  \/ \E i \in Teardowns : SummaryDone(i)
  \/ \E i \in Teardowns : SummaryFailed(i)

SpecFeedback == InitFeedback /\ [][NextFeedback]_vars

\* Everything that writes the transcript: the greeting, the turns of the
\* participant and of the agent, and the spoken summary at teardown.
NextTranscript ==
  \/ NextFeedback
  \/ \E obs \in SUBSET {"agent_turn"} : AgentReplyDone(obs)
  \/ \E has_text \in BOOLEAN : OnAgentTurnCompleted(has_text)

SpecTranscript == InitFeedback /\ [][NextTranscript]_vars

\* The same under the scheduling of the event loop: the call of say for the
\* greeting returns or raises, a registered shutdown hook is run once the
\* session has ended, and every await of the pipeline returns or raises.
FairFeedback ==
  /\ SpecFeedback
  /\ WF_vars(GreetingFailed \/ \E obs \in {{}} : GreetingDone(obs))
  /\ WF_vars(\E i \in Teardowns : TeardownStart(i))
  /\ WF_vars(\E i \in Teardowns : GenerateDone(i) \/ GenerateFailed(i))
  /\ WF_vars(\E i \in Teardowns : SaveDone(i) \/ \E applied \in BOOLEAN : SaveFailed(i, applied))
  /\ WF_vars(\E i \in Teardowns : SummaryDone(i) \/ SummaryFailed(i))


\* ---------------------------------------------------------- retrieval
Users == {"A", "B"}
ResumeIds == {"r1", "r2"}
\* A text is the sequence of the lengths of its paragraphs, the pieces of
\* text.split('\n\n'); a paragraph of length 0 is an empty piece.
ResumeTexts == {<<200, 200, 200>>, <<300>>}

RECURSIVE SumLens(_)
SumLens(ps) == IF ps = <<>> THEN 0 ELSE ps[1] + SumLens(Tail(ps))
\* A length that leaves the separators out.
RawLenNoSeparators(ps) == SumLens(ps)

\* len() of the string built by "current_chunk += para + '\n\n'" for each paragraph
RawLen(ps) == SumLens(ps) + SeparatorLen * Len(ps)

RECURSIVE StripLeft(_)
StripLeft(ps) == IF ps # <<>> /\ ps[1] = 0 THEN StripLeft(Tail(ps)) ELSE ps
RECURSIVE StripRight(_)
StripRight(ps) ==
  IF ps # <<>> /\ ps[Len(ps)] = 0 THEN StripRight(SubSeq(ps, 1, Len(ps) - 1)) ELSE ps
\* str.strip(): the separators and empty pieces at both ends go
Strip(ps) == StripRight(StripLeft(ps))

\* A loop that loses the paragraph that did not fit.
RECURSIVE ChunkLoopDropsParagraph(_, _, _, _, _)
ChunkLoopDropsParagraph(paragraphs, i, current_chunk, chunks, chunk_size) ==
  IF i > Len(paragraphs)
    THEN IF current_chunk # <<>> THEN Append(chunks, Strip(current_chunk)) ELSE chunks
    ELSE IF SumLens(current_chunk) + SeparatorLen * Len(current_chunk) + paragraphs[i]
              < chunk_size
      THEN ChunkLoopDropsParagraph(paragraphs, i + 1, Append(current_chunk, paragraphs[i]),
                                   chunks, chunk_size)
      ELSE ChunkLoopDropsParagraph(paragraphs, i + 1, <<>>,
                     IF current_chunk # <<>> THEN Append(chunks, Strip(current_chunk))
                                             ELSE chunks,
                     chunk_size)

RECURSIVE ChunkLoop(_, _, _, _, _)
ChunkLoop(paragraphs, i, current_chunk, chunks, chunk_size) ==
  IF i > Len(paragraphs)
    THEN IF current_chunk # <<>> THEN Append(chunks, Strip(current_chunk)) ELSE chunks
    ELSE IF RawLen(current_chunk) + paragraphs[i] < chunk_size
      THEN ChunkLoop(paragraphs, i + 1, Append(current_chunk, paragraphs[i]), chunks, chunk_size)
      ELSE ChunkLoop(paragraphs, i + 1, <<paragraphs[i]>>,
                     IF current_chunk # <<>> THEN Append(chunks, Strip(current_chunk))
                                             ELSE chunks,
                     chunk_size)

\* RAGService._chunk_text
ChunkText(text, chunk_size) == ChunkLoop(text, 1, <<>>, <<>>, chunk_size)

\* The texts and budgets _chunk_text is applied to: up to MaxParas
\* paragraphs, empty, short, just under half the default budget, and longer
\* than the budget.
ParaLens == {0, 99, 200, 249, 600}
ChunkTexts == UNION {[1..n -> ParaLens] : n \in 1..MaxParas}
Budgets == {ChunkSize, ChunkSize \div 2}

\* A call of _chunk_text(text, chunk_size)
ChunkTextCall(text, chunk_size) ==
  /\ chunk_in' = text
  /\ chunk_budget' = chunk_size
  /\ chunks_out' = ChunkText(text, chunk_size)
  /\ UNCHANGED <<qdrant_configured, hash_seed, points, results, query_user, index_ok,
                 embed_log, last_op, toolVars>>
  /\ UNCHANGED <<sessionVars, feedbackVars, mediaVars, extractVars, serverVars>>

\* hash(f"{resume_id}_{idx}") % (2**63) in a process whose string hashing is seeded with seed
PointId(seed, resume_id, idx) == <<seed, resume_id, idx>>

\* The embedding service and the cosine similarity of the collection: a
\* chunk or a query is mapped to a value, and closer values score higher.
Embed(x) == (SumLens(x) \div 100) % (MaxQuery + 1)
Score(query_vector, p) ==
  0 - (IF query_vector >= Embed(p.text) THEN query_vector - Embed(p.text)
                                        ELSE Embed(p.text) - query_vector)

\* The points index_resume builds for the chunks of a text.
ResumePoints(user_name, resume_text, resume_id) ==
  LET chunks == ChunkText(resume_text, ChunkSize)
  IN  {[id |-> PointId(hash_seed, resume_id, idx - 1),
        text |-> chunks[idx],
        source |-> "resume",
        user_name |-> user_name,
        resume_id |-> resume_id,
        chunk_index |-> idx - 1,
        total_chunks |-> Len(chunks)] : idx \in 1..Len(chunks)}

\* aqdrant.upsert: a point replaces the stored point of the same id
Upsert(pts, new) == {p \in pts : \A n \in new : n.id # p.id} \cup new

\* An index_resume that embeds the chunks before it looks at the store.
IndexResumeEmbedsFirst(user_name, resume_text, resume_id, ensure_ok, embed_ok, upsert_ok) ==
  /\ IF qdrant_configured /\ ensure_ok /\ embed_ok /\ upsert_ok
       THEN /\ points' = Upsert(points, ResumePoints(user_name, resume_text, resume_id))
            /\ index_ok' = "true"
       ELSE /\ points' = points
            /\ index_ok' = "false"
  /\ embed_log' = IF embed_ok THEN "ok" ELSE "failed"
  /\ last_op' = "index"
  /\ UNCHANGED <<qdrant_configured, hash_seed, results, query_user, chunkVars, toolVars>>
  /\ UNCHANGED <<sessionVars, feedbackVars, mediaVars, extractVars, serverVars>>

\* An index_resume that upserts every point as soon as its chunk is
\* embedded: when a later embedding fails the first point is already stored.
IndexResumeUpsertsEachChunk(user_name, resume_text, resume_id, ensure_ok, embed_ok, upsert_ok) ==
  /\ IF qdrant_configured /\ ensure_ok /\ embed_ok /\ upsert_ok
       THEN /\ points' = Upsert(points, ResumePoints(user_name, resume_text, resume_id))
            /\ index_ok' = "true"
       ELSE /\ points' = IF qdrant_configured /\ ensure_ok /\ upsert_ok
                           THEN Upsert(points,
                                       {p \in ResumePoints(user_name, resume_text, resume_id) :
                                          p.chunk_index = 0})
                           ELSE points
            /\ index_ok' = "false"
  /\ embed_log' = IF ~qdrant_configured \/ ~ensure_ok THEN "none"
                  ELSE IF embed_ok THEN "ok" ELSE "failed"
  /\ last_op' = "index"
  /\ UNCHANGED <<qdrant_configured, hash_seed, results, query_user, chunkVars, toolVars>>
  /\ UNCHANGED <<sessionVars, feedbackVars, mediaVars, extractVars, serverVars>>

\* RAGService.index_resume. It returns False at once when there is no
\* client; otherwise it ensures the collection and its indexes, chunks the
\* text, embeds every chunk and upserts the points in one call, and any
\* exception on the way makes it return False. ensure_ok: the collection
\* and index calls returned; embed_ok: every embed_text call returned;
\* upsert_ok: the upsert returned.
IndexResume(user_name, resume_text, resume_id, ensure_ok, embed_ok, upsert_ok) ==
  /\ IF qdrant_configured /\ ensure_ok /\ embed_ok /\ upsert_ok
       THEN /\ points' = Upsert(points, ResumePoints(user_name, resume_text, resume_id))
            /\ index_ok' = "true"
       ELSE /\ points' = points
            /\ index_ok' = "false"
  /\ embed_log' = IF ~qdrant_configured \/ ~ensure_ok THEN "none"
                  ELSE IF embed_ok THEN "ok" ELSE "failed"
  /\ last_op' = "index"
  /\ UNCHANGED <<qdrant_configured, hash_seed, results, query_user, chunkVars, toolVars>>
  /\ UNCHANGED <<sessionVars, feedbackVars, mediaVars, extractVars, serverVars>>

\* A filter that matches on the category alone.
MatchingAnyOwner(pts, user_name, source_filter) ==
  {p \in pts : source_filter # "" => p.source = source_filter}

\* The query filter of _search_collection: must user_name, and must source
\* when a source filter is given.
Matching(pts, user_name, source_filter) ==
  {p \in pts : /\ p.user_name = user_name
               /\ source_filter # "" => p.source = source_filter}

\* The lists of at most n points of m, best score first: a best point of m
\* followed by such a list of the other points.
RECURSIVE BestFirst(_, _, _)
BestFirst(m, query_vector, n) ==
  IF n = 0 \/ m = {}
    THEN {<<>>}
    ELSE LET best == {p \in m : \A o \in m : Score(query_vector, p) >= Score(query_vector, o)}
         IN  UNION {{<<p>> \o rest : rest \in BestFirst(m \ {p}, query_vector, n - 1)} :
                      p \in best}

\* aqdrant.search with limit top_k: the possible hit lists, best score first,
\* points of equal score in any order.
Hits(pts, query_vector, user_name, source_filter, top_k) ==
  BestFirst(Matching(pts, user_name, source_filter), query_vector, top_k)

\* RAGService._search_collection: the possible results
SearchCollection(query, user_name, source_filter, top_k, embed_ok) ==
  IF ~qdrant_configured \/ ~embed_ok
    THEN {<<>>}
    ELSE Hits(points, query, user_name, source_filter, top_k)

\* What _search_collection does with embed_text: nothing without a client,
\* else the query is embedded first.
SearchEmbedLog(embed_ok) ==
  IF ~qdrant_configured THEN "none" ELSE IF embed_ok THEN "ok" ELSE "failed"

\* RAGService.search_resume
SearchResume(query, user_name, top_k, embed_ok) ==
  /\ results' \in SearchCollection(query, user_name, "resume", top_k, embed_ok)
  /\ query_user' = user_name
  /\ embed_log' = SearchEmbedLog(embed_ok)
  /\ last_op' = "search"
  /\ UNCHANGED <<qdrant_configured, hash_seed, points, index_ok, chunkVars, toolVars>>
  /\ UNCHANGED <<sessionVars, feedbackVars, mediaVars, extractVars, serverVars>>

\* The retrieval service in use by several participants, configured or not.
InitRag ==
  /\ Constructed
  /\ interview_mode = "practice"
  /\ session_id = "none"
  /\ has_camera = FALSE
  /\ has_screen_share = FALSE
  /\ store = {}
  /\ qdrant_configured \in BOOLEAN
  /\ hash_seed = 1
  /\ points = {}
  /\ results = <<>>
  /\ query_user = "nobody"
  /\ index_ok = "none"
  /\ RagIdle

NextRag ==
  \/ \E u \in Users, t \in ResumeTexts, r \in ResumeIds, c \in BOOLEAN, e \in BOOLEAN,
        w \in BOOLEAN :
       IndexResume(u, t, r, c, e, w)
  \/ \E q \in 0..MaxQuery, u \in Users, k \in 1..MaxTopK, e \in BOOLEAN :
       SearchResume(q, u, k, e)

SpecRag == InitRag /\ [][NextRag]_vars

\* search_candidate_info asks for five results and cuts each text to 300 characters.
ToolTopK == 5
MaxResultChars == 300

\* RAGService.set_user_context
SetUserContext(user_name) == current_user_name' = user_name

\* entrypoint of the session of a participant, in the process that holds
\* the one RAGService: it binds the participant when the metadata or the
\* room gives a name, and hands the tool to the agent.
SessionStart(user_name, named) ==
  /\ tool_sessions[user_name] = "none"
  /\ IF named
       THEN SetUserContext(user_name)
       ELSE UNCHANGED current_user_name
  /\ tool_sessions' = [tool_sessions EXCEPT ![user_name] = IF named THEN "bound" ELSE "started"]
  /\ UNCHANGED <<qdrant_configured, hash_seed, points, results, query_user, index_ok,
                 embed_log, last_op, chunkVars, tool_caller, tool_out>>
  /\ UNCHANGED <<sessionVars, feedbackVars, mediaVars, extractVars, serverVars>>

\* text[:n] of a fragment
Truncate(text, n) ==
  [of |-> text,
   len |-> IF SumLens(text) + SeparatorLen * (Len(text) - 1) < n
             THEN SumLens(text) + SeparatorLen * (Len(text) - 1) ELSE n]

\* A formatting that returns the texts whole.
FormatResultsWhole(search_results) ==
  [i \in 1..Len(search_results) |->
     Truncate(search_results[i].text, SumLens(search_results[i].text) + MaxResultChars)]

\* "\n\n".join of result.text[:300] for the results in order
FormatResults(search_results) ==
  [i \in 1..Len(search_results) |-> Truncate(search_results[i].text, MaxResultChars)]

\* The tool search_candidate_info called by the agent of the session of
\* caller. Without a bound name it returns its first sentence; else it
\* searches the resume fragments of the name bound at that moment and
\* returns its second sentence for no result, the formatted results
\* otherwise. search_resume raises nothing, so the handler at the end of
\* the tool is not entered.
SearchCandidateInfo(caller, query, embed_ok) ==
  /\ tool_sessions[caller] # "none"
  /\ tool_caller' = caller
  /\ IF current_user_name = ""
       THEN /\ tool_out' = [kind |-> "no_identity", texts |-> <<>>]
            /\ UNCHANGED <<results, query_user, embed_log, last_op>>
       ELSE /\ results' \in SearchCollection(query, current_user_name, "resume", ToolTopK,
                                              embed_ok)
            /\ query_user' = current_user_name
            /\ embed_log' = SearchEmbedLog(embed_ok)
            /\ last_op' = "search"
            /\ tool_out' = IF results' = <<>>
                             THEN [kind |-> "nothing_found", texts |-> <<>>]
                             ELSE [kind |-> "results", texts |-> FormatResults(results')]
  /\ UNCHANGED <<qdrant_configured, hash_seed, points, index_ok, chunkVars,
                 current_user_name, tool_sessions>>
  /\ UNCHANGED <<sessionVars, feedbackVars, mediaVars, extractVars, serverVars>>

\* Two participants, each with a resume of their own: a short one or one of
\* six long paragraphs.
ToolTexts == {<<200>>, <<600, 700, 800, 600, 700, 800>>}
ResumeOf(user_name) == IF user_name = "A" THEN "r1" ELSE "r2"
\* The queries the agent passes to the tool.
ToolQueries == {0}

NextTool ==
  \/ \E u \in Users, named \in BOOLEAN : SessionStart(u, named)
  \/ \E u \in Users, t \in ToolTexts : IndexResume(u, t, ResumeOf(u), TRUE, TRUE, TRUE)
  \/ \E caller \in Users, q \in ToolQueries, e \in BOOLEAN : SearchCandidateInfo(caller, q, e)

SpecTool == InitRag /\ [][NextTool]_vars

\* ------------------------------------------------- feedback sections
\* The lines a feedback text is made of: headings with a title, a heading
\* of a deeper level, a heading without a title, a line of text and a
\* blank line.
FeedbackLines == {"## S", "## T", "### S", "##", "x", ""}
FeedbackTexts == UNION {[1..n -> FeedbackLines] : n \in 1..MaxLines}

\* line.strip().startswith("##")
IsHeader(line) == line \in {"## S", "## T", "### S", "##"}
\* line.strip().replace("##", "").strip()
HeaderTitle(line) ==
  CASE line = "## S" -> "S"
    [] line = "## T" -> "T"
    [] line = "### S" -> "# S"
    [] OTHER -> ""

RECURSIVE StripBlankLeft(_)
StripBlankLeft(ls) == IF ls # <<>> /\ ls[1] = "" THEN StripBlankLeft(Tail(ls)) ELSE ls
RECURSIVE StripBlankRight(_)
StripBlankRight(ls) ==
  IF ls # <<>> /\ ls[Len(ls)] = "" THEN StripBlankRight(SubSeq(ls, 1, Len(ls) - 1)) ELSE ls
\* "\n".join(current_content).strip(): the blank lines at both ends go
JoinStrip(ls) == StripBlankRight(StripBlankLeft(ls))

\* sections[key] = value
DictPut(d, key, value) == [k \in DOMAIN d \cup {key} |-> IF k = key THEN value ELSE d[k]]
\* "if current_section:" is false for None and for the empty title
Truthy(current_section) == current_section # None /\ current_section[1] # ""

RECURSIVE ExtractLoop(_, _, _, _, _)
ExtractLoop(lines, i, sections, current_section, current_content) ==
  LET saved == IF Truthy(current_section)
                 THEN DictPut(sections, current_section[1], JoinStrip(current_content))
                 ELSE sections
  IN  IF i > Len(lines)
        THEN saved
        ELSE IF IsHeader(lines[i])
          THEN ExtractLoop(lines, i + 1, saved, Some(HeaderTitle(lines[i])), <<>>)
          ELSE ExtractLoop(lines, i + 1, sections, current_section,
                           IF Truthy(current_section) THEN Append(current_content, lines[i])
                                                      ELSE current_content)

\* FeedbackService._extract_sections
ExtractSections(feedback_text) == ExtractLoop(feedback_text, 1, <<>>, None, <<>>)

\* A call of _extract_sections(feedback_text)
ExtractSectionsCall(feedback_text) ==
  /\ extract_in' = feedback_text
  /\ extract_out' = ExtractSections(feedback_text)
  /\ UNCHANGED <<qdrant_configured, hash_seed, points, results, query_user, index_ok,
                 embed_log, last_op, chunkVars, toolVars, serverVars>>
  /\ UNCHANGED <<sessionVars, feedbackVars, mediaVars>>

NextExtract == \E feedback_text \in FeedbackTexts : ExtractSectionsCall(feedback_text)

SpecExtract == InitRag /\ [][NextExtract]_vars

\* ------------------------------------------------- the HTTP server
\* The user names a request may carry; "" is a request without one.
RequestNames == Users \cup {""}
\* The resume ids a create-room request may carry; "" is a request
\* without one.
RequestResumeIds == ResumeIds \cup {""}

\* POST /api/resume/upload for a document that parses to a text: the id
\* is a fresh uuid4; with a user name the indexing task is created at
\* once, without one the text waits in pending_resumes.
UploadResume(resume_id, user_name) ==
  /\ resume_id \notin uploaded
  /\ uploaded' = uploaded \cup {resume_id}
  /\ IF user_name # ""
       THEN /\ index_started' = [index_started EXCEPT ![resume_id] = @ + 1]
            /\ UNCHANGED pending_resumes
       ELSE /\ pending_resumes' = pending_resumes \cup {resume_id}
            /\ UNCHANGED index_started
  /\ UNCHANGED <<room_requests, qdrant_configured, hash_seed, points, results, query_user,
                 index_ok, embed_log, last_op, chunkVars, toolVars, extractVars>>
  /\ UNCHANGED <<sessionVars, feedbackVars, mediaVars>>

\* create_interview_room that reads the pending text and leaves it in
\* pending_resumes.
CreateRoomKeepsPending(request_resume_id, request_user_name) ==
  LET user_name == IF request_user_name # "" THEN request_user_name ELSE "Candidate"
  IN  /\ request_resume_id # "" => room_requests[request_resume_id] < MaxRooms
      /\ IF request_resume_id # "" /\ request_resume_id \in pending_resumes
           THEN index_started' = [index_started EXCEPT ![request_resume_id] = @ + 1]
           ELSE UNCHANGED index_started
      /\ UNCHANGED pending_resumes
      /\ room_requests' = IF request_resume_id # ""
                            THEN [room_requests EXCEPT ![request_resume_id] = @ + 1]
                            ELSE room_requests
      /\ SetUserContext(user_name)
      /\ UNCHANGED <<uploaded, qdrant_configured, hash_seed, points, results, query_user,
                     index_ok, embed_log, last_op, chunkVars, tool_sessions, tool_caller,
                     tool_out, extractVars>>
      /\ UNCHANGED <<sessionVars, feedbackVars, mediaVars>>

\* POST /api/interview/create-room with LiveKit available: the membership
\* test and the pop run without an await between them; the user context
\* is set for every request.
CreateInterviewRoom(request_resume_id, request_user_name) ==
  LET user_name == IF request_user_name # "" THEN request_user_name ELSE "Candidate"
  IN  /\ request_resume_id # "" => room_requests[request_resume_id] < MaxRooms
      /\ IF request_resume_id # "" /\ request_resume_id \in pending_resumes
           THEN /\ pending_resumes' = pending_resumes \ {request_resume_id}
                /\ index_started' = [index_started EXCEPT ![request_resume_id] = @ + 1]
           ELSE UNCHANGED <<pending_resumes, index_started>>
      /\ room_requests' = IF request_resume_id # ""
                            THEN [room_requests EXCEPT ![request_resume_id] = @ + 1]
                            ELSE room_requests
      /\ SetUserContext(user_name)
      /\ UNCHANGED <<uploaded, qdrant_configured, hash_seed, points, results, query_user,
                     index_ok, embed_log, last_op, chunkVars, tool_sessions, tool_caller,
                     tool_out, extractVars>>
      /\ UNCHANGED <<sessionVars, feedbackVars, mediaVars>>

NextServer ==
  \/ \E r \in ResumeIds, u \in RequestNames : UploadResume(r, u)
  \/ \E r \in RequestResumeIds, u \in RequestNames : CreateInterviewRoom(r, u)

SpecServer == InitRag /\ [][NextServer]_vars

\* The seeds a Python process may draw for its string hashing.
HashSeeds == {1, 2}

\* The process that holds the RAGService ends and a new one constructs it
\* again: the collection stays, the string hashing is seeded anew and no
\* participant is bound.
ProcessRestart ==
  /\ hash_seed' \in HashSeeds \ {hash_seed}
  /\ current_user_name' = ""
  /\ tool_sessions' = [u \in Users |-> "none"]
  /\ UNCHANGED <<qdrant_configured, points, results, query_user, index_ok, embed_log,
                 last_op, chunkVars, tool_caller, tool_out>>
  /\ UNCHANGED <<sessionVars, feedbackVars, mediaVars, extractVars, serverVars>>

\* Resumes indexed by one process, every call failing or not at each step.
NextIndex ==
  \E u \in Users, t \in ResumeTexts, r \in ResumeIds, c \in BOOLEAN, e \in BOOLEAN,
     w \in BOOLEAN :
    IndexResume(u, t, r, c, e, w)

SpecIndex == InitRag /\ [][NextIndex]_vars

\* Resumes indexed again and again by processes that come and go.
NextReindex ==
  \/ \E u \in Users, t \in ResumeTexts, r \in ResumeIds, c \in BOOLEAN, e \in BOOLEAN,
        w \in BOOLEAN :
       IndexResume(u, t, r, c, e, w)
  \/ ProcessRestart

SpecReindex == InitRag /\ [][NextReindex]_vars

\* _chunk_text applied to every text and budget of the bounded sets.
NextChunk == \E text \in ChunkTexts, chunk_size \in Budgets : ChunkTextCall(text, chunk_size)

SpecChunk == InitRag /\ [][NextChunk]_vars

\* ------------------------------------------------------------ claims
Returned(i) == fpc[i] \in {"skipped", "nothing", "done"}
Reports == DocsOf(store, session_id)
SaveRaised(i) == fpc[i] = "save" /\ fpc'[i] = "say" /\ fsave'[i] # "ok"
GenerateRaised(i) == fpc[i] = "gen" /\ fpc'[i] = "done"
SummaryEnded(i) == fpc[i] = "say" /\ fpc'[i] = "done"
Entered(i) == fpc[i] = "idle" /\ fpc'[i] # "idle"

\* C1 as stated: once a teardown signal of a mock-interview session that has
\* a session identity has been handled, the report store holds exactly one
\* report for that identity.
C1_ExactlyOneReport ==
  (IsMock /\ session_id # "none" /\ \E i \in Teardowns : Returned(i))
    => Cardinality(Reports) = 1

\* C1 amended: the store never holds more than one report for the session
\* identity, whatever signals arrive; once a save has returned there is
\* exactly one, it carries the data of that save (an earlier write is replaced,
\* not kept beside it), and the report of another session is left alone.
C1_AtMostOneReport ==
  /\ Cardinality(Reports) <= 1
  /\ \A i \in Teardowns : fsave[i] = "ok" =>
       \E d \in store : Reports = {d} /\ d.feedback = i
  /\ \A d \in store : d.session_id = "s0" => d = OtherDoc

\* C1 witness: the write of a first signal was applied though its save raised,
\* a retried signal saved again, and one report holds the second save's data.
C1_Witness ==
  \E i, j \in Teardowns :
    /\ fsave[i] = "lost_ack" /\ fsave[j] = "ok" /\ fpc[i] = "done" /\ fpc[j] = "done"
    /\ \E d \in store : Reports = {d} /\ d.feedback = j

\* C2 as stated: the flag is cleared back to false only when persistence fails.
C2_ClearedOnlyWhenSaveFails ==
  [][(feedback_generated /\ ~feedback_generated') => \E i \in Teardowns : SaveRaised(i)]_vars

\* C2 amended: the flag is set in the step that enters the generation attempt
\* and is set throughout generation and save; it is cleared only when
\* generation or persistence fails; it is never cleared once a save has
\* returned; and a signal that finds it set returns without generating or saving.
C2_FlagDiscipline ==
  /\ [](\A i \in Teardowns : fpc[i] \in {"gen", "save"} => feedback_generated)
  /\ []((\E i \in Teardowns : fsave[i] = "ok") => feedback_generated)
  /\ [][/\ (~feedback_generated /\ feedback_generated') =>
              \E i \in Teardowns : fpc[i] = "idle" /\ fpc'[i] = "gen"
        /\ (feedback_generated /\ ~feedback_generated') =>
              \E i \in Teardowns : SaveRaised(i) \/ GenerateRaised(i)
        /\ \A i \in Teardowns : (feedback_generated /\ Entered(i)) =>
              /\ fpc'[i] = "skipped"
              /\ store' = store /\ fsave' = fsave /\ feedback_generated']_vars

\* C2 witness: a signal arrived while the flag was set after a successful
\* save and returned at once.
C2_Witness ==
  \E i, j \in Teardowns :
    fsave[i] = "ok" /\ fpc[j] = "skipped" /\ fsave[j] = "none" /\ feedback_generated

\* C3: a save that raises leaves the flag false, and a signal that finds the
\* flag false (with a session identity and a transcript) runs generation
\* again; the end of the verbal summary, failed or not, changes neither the
\* flag nor the store.
C3_RollbackAndRetry ==
  [][\A i \in Teardowns :
       /\ SaveRaised(i) => ~feedback_generated'
       /\ SummaryEnded(i) => (feedback_generated' = feedback_generated /\ store' = store)
       /\ (Entered(i) /\ ~feedback_generated /\ session_id # "none" /\ Len(transcript) > 0)
            => (fpc'[i] = "gen" /\ feedback_generated')]_vars

\* C3 witness: the save of one signal failed, a later signal generated and
\* saved the report, its verbal summary failed, and the report is in the store.
C3_Witness ==
  \E i, j \in Teardowns :
    /\ fsave[i] = "failed" /\ fsave[j] = "ok"
    /\ fpc[j] = "done" /\ j \notin said_saved
    /\ Cardinality(Reports) = 1


\* C5 as stated: in mock-interview mode no opening statement is emitted
\* while the camera track or the screen-share track is absent.
C5_NoOpeningWhileTrackAbsent ==
  IsMock => ~opened_without

PromptStarts == prompts_in_flight' > prompts_in_flight
UserTurnCompletes == \E has_text \in BOOLEAN : OnUserTurnCompleted(has_text)
\* The completion of a counterpart utterance is observed: by the session.say
\* wrapper (the greeting), by a delivered notification (TTS metrics,
\* on_agent_turn_completed, audio track ended) or by the monitor after its prompt.
TrackedPathStep ==
  \/ epc = "greeting" /\ epc' = "ready"
  \/ pending_obs' # pending_obs /\ pending_obs' \subseteq pending_obs
PromptCompletes == mon_pc = "say" /\ prompt_parity' # prompt_parity

\* C6: never more than one silence prompt in flight; the in-flight flag is
\* set exactly while one is; a prompt starts only with the flag clear and no
\* prompt in flight.
C6_OnePromptInFlight ==
  /\ [](prompts_in_flight <= 1)
  /\ []((prompts_in_flight = 1) <=> is_checking_silence)
  /\ []((prompts_in_flight = 1) <=> (mon_pc = "say"))
  /\ [][PromptStarts => (~is_checking_silence /\ prompts_in_flight = 0)]_vars

\* C6 witness: a prompt is in flight after an earlier one was spoken.
C6_Witness ==
  prompts_in_flight = 1 /\ is_checking_silence /\ IsSet(since_prompt)

\* C7: a silence prompt starts only when last-speech-timestamp, the end of
\* the last counterpart speech, is exactly 5 seconds old (older only when the
\* previous attempt raised), with the participant not speaking, and never
\* less than 5 seconds after the start of the last prompt that was spoken.
C7_OnePromptPerFiveSeconds ==
  [][PromptStarts =>
       /\ ~user_is_speaking
       /\ IsSet(last_question_time)
       /\ (Age(last_question_time) = SilenceThreshold \/ last_attempt_failed)
       /\ (IsSet(since_prompt) => Age(since_prompt) >= SilenceThreshold)]_vars

\* C7 witness: the next prompt is in flight, started exactly 5 seconds after
\* the previous one, the participant still silent.
C7_Witness ==
  /\ mon_pc = "say" /\ attempt_age = Some(0)
  /\ since_prompt = Some(SilenceThreshold)
  /\ ~user_is_speaking

C10_EveryPathResetsBoth ==
  [][(IsMock /\ TrackedPathStep) =>
        (last_question_time' = Some(0) /\ ~user_is_speaking')]_vars


\* The session while no participant turn arrives, under the scheduling of
\* the event loop: the clock advances, the monitor runs when its sleep is
\* over, every prompt handed to original_say ends, and the speech service
\* does not fail for ever.
NextSilent ==
  \/ EntryStart
  \/ \E obs \in SUBSET ObsPaths : GreetingDone(obs)
  \/ GreetingFailed
  \/ SessionClose
  \/ OnMetricsCollected
  \/ \E has_text \in BOOLEAN : OnAgentTurnCompleted(has_text)
  \/ OnTrackUnsubscribedAudio
  \/ MonitorIteration
  \/ \E obs \in SUBSET ObsPaths : PromptDone(obs)
  \/ PromptFailed
  \/ Tick

LiveSpec ==
  /\ Init
  /\ [][NextSilent]_vars
  /\ WF_vars(Tick)
  /\ WF_vars(MonitorIteration)
  /\ WF_vars(PromptFailed \/ \E obs \in SUBSET ObsPaths : PromptDone(obs))
  /\ SF_vars(\E obs \in SUBSET ObsPaths : PromptDone(obs))

C4_ResultsOwnedByCaller ==
  \A i \in 1..Len(results) :
    results[i].user_name = query_user /\ results[i].source = "resume"

\* C4 witness: a search for one participant returned results while the
\* collection also holds points of another participant.
C4_Witness ==
  /\ Len(results) = MaxTopK
  /\ \E p \in points : p.user_name # query_user

\* ---------------------------------------------------------------- frames
Slot(kind) == IF kind = "camera" THEN latest_camera_frame ELSE latest_screen_frame

\* C11 as stated: on each completed participant turn, in either mode, every
\* source kind whose slot holds a frame has that frame attached to the
\* turn's message and its slot cleared.
C11_EverySlotAttachedAndCleared ==
  [][UserTurnCompletes =>
       \A kind \in SourceKinds :
         IsSet(Slot(kind)) => /\ <<kind, Age(Slot(kind))>> \in attached'
                              /\ Slot(kind)' = None]_vars

\* C12: a frame attached to a participant turn was attached to no earlier
\* turn, and every image of a turn comes from a source kind whose reader
\* wrote a frame since the previous turn.
C12_FrameDeliveredAtMostOnce ==
  [][UserTurnCompletes =>
       /\ attached' \cap delivered' = {}
       /\ \A img \in attached' : img[1] \in fresh]_vars

\* A turn carries a later frame of a source kind of which an earlier turn
\* carried a frame.
C12_Witness ==
  \E img \in attached, old \in delivered : img[1] = old[1] /\ img[2] > old[2]

\* C13 as stated: the participant turn that follows reader writes receives,
\* for each source kind, exactly the last frame written for it since the
\* previous turn, and nothing of a kind that was not written.
C13_NextTurnGetsLastWritten ==
  [][UserTurnCompletes =>
       \A kind \in SourceKinds :
         {img \in attached' : img[1] = kind} =
           IF kind \in fresh THEN {<<kind, frames_written[kind]>>} ELSE {}]_vars

\* ------------------------------------------------------------ compliance
\* C14 as stated: in mock-interview mode a session whose screen share has
\* been off the interview page for two grace windows (20 seconds) without a
\* break is terminated: it no longer runs, so no participant turn is processed.
C14_TerminatedAfterTwoWindows ==
  (IsMock /\ IsSet(violation_age) /\ Age(violation_age) >= 2 * GraceWindow) => ~is_running

\* ------------------------------------------------------- end of session
Eligible == IsMock /\ session_id # "none" /\ Len(transcript) > 0
Ended == epc # "init" /\ ~is_running

\* C16 as stated: when a mock-interview session with a session id and a
\* non-empty transcript has ended, at whatever point after its start,
\* generate_feedback_on_end is eventually invoked.
C16_PipelineInvokedAtEnd ==
  (Eligible /\ Ended) ~> (\E i \in Teardowns : fpc[i] # "idle")

\* C17: the text generation and the report store are reached only for a
\* mock-interview session with a session id and a non-empty transcript;
\* otherwise no invocation gets past its test, the flag stays unset and the
\* store is left as it was.
C17_ReportOnlyWhenEligible ==
  /\ \A i \in Teardowns : fpc[i] \in {"gen", "save", "say", "done"} => Eligible
  /\ ~Eligible => /\ ~feedback_generated
                  /\ store \subseteq {OtherDoc}
                  /\ \A i \in Teardowns : fsave[i] = "none"

\* C17 witness: a teardown of a session without a session id has returned.
C17_Witness ==
  \E i \in Teardowns : fpc[i] = "nothing" /\ ~Eligible /\ Ended

\* C18 as stated: once the session no longer runs, the silence monitor task
\* eventually terminates, whatever the speaking flag and the timestamp.
C18_MonitorTerminates ==
  Ended ~> (mon_pc \in {"off", "done"})

\* C19 as stated: no stream-reader task writes a frame after the session has ended.
C19_NoWriteAfterSessionEnd ==
  [][Ended => ~(\E kind \in SourceKinds : ReaderWrite(kind))]_vars

C21_PracticeOpensAtOnce ==
  (~IsMock /\ epc # "init") => (openings = 1 /\ ~opened_without)

\* A practice session whose greeting was handed over with no track published.
C21_Witness ==
  /\ ~IsMock
  /\ epc = "greeting"
  /\ ~has_camera /\ ~has_screen_share
  /\ video_readers = {}
  /\ openings = 1

\* len() of a fragment: its paragraphs joined by the separator
JoinedLen(ps) == IF ps = <<>> THEN 0 ELSE SumLens(ps) + SeparatorLen * (Len(ps) - 1)

\* C22: no fragment returned by _chunk_text is longer than the budget,
\* unless it consists of one single paragraph that alone exceeds the budget.
C22_FragmentWithinBudget ==
  \A k \in 1..Len(chunks_out) :
    \/ JoinedLen(chunks_out[k]) <= chunk_budget
    \/ Len(chunks_out[k]) = 1 /\ chunks_out[k][1] > chunk_budget

\* A text that gives a merged fragment and an oversized single paragraph.
C22_Witness ==
  /\ \E k \in 1..Len(chunks_out) : Len(chunks_out[k]) >= 2 /\ JoinedLen(chunks_out[k]) > 400
  /\ \E k \in 1..Len(chunks_out) : JoinedLen(chunks_out[k]) > chunk_budget

RECURSIVE Flatten(_)
Flatten(chunks) == IF chunks = <<>> THEN <<>> ELSE chunks[1] \o Flatten(Tail(chunks))
IsText(x) == x # 0
Paragraphs(ps) == SelectSeq(ps, IsText)

\* C23: the fragments of _chunk_text, taken in order, hold the paragraphs
\* of the text whole, each once and in the original order; only empty
\* pieces at fragment boundaries are lost.
C23_FragmentsRejoinToText ==
  Paragraphs(Flatten(chunks_out)) = Paragraphs(chunk_in)

\* A text of three paragraphs around an empty piece, split in two fragments.
C23_Witness ==
  /\ Len(chunk_in) = 3 /\ Len(Paragraphs(chunk_in)) = 2
  /\ Len(chunks_out) = 2
  /\ Len(Flatten(chunks_out)) < Len(chunk_in)

\* C24 as stated: a new fragment starts only when the current fragment
\* joined with the next paragraph by a blank line would be longer than the
\* budget, and three paragraphs of 200 characters with budget 500 give two
\* fragments, the first two paragraphs merged and the third alone.
C24_NewFragmentOnlyOverBudget ==
  /\ \A k \in 1..(Len(chunks_out) - 1) :
       (chunks_out[k] # <<>> /\ chunks_out[k + 1] # <<>>)
         => JoinedLen(Append(chunks_out[k], chunks_out[k + 1][1])) > chunk_budget
  /\ (chunk_in = <<200, 200, 200>> /\ chunk_budget = ChunkSize)
       => chunks_out = << <<200, 200>>, <<200>> >>

\* The fragments the collection holds for a resume id, and the state in
\* which they are those of one indexing of the text for the participant.
StoredFragments(pts, resume_id) == {p \in pts : p.resume_id = resume_id}
Payload(p) == [text |-> p.text, user_name |-> p.user_name, chunk_index |-> p.chunk_index]
IndexedOnce(user_name, resume_text, resume_id) ==
  LET chunks == ChunkText(resume_text, ChunkSize)
  IN  /\ Cardinality(StoredFragments(points, resume_id)) = Len(chunks)
      /\ {Payload(p) : p \in StoredFragments(points, resume_id)} =
           {[text |-> chunks[idx], user_name |-> user_name, chunk_index |-> idx - 1] :
              idx \in 1..Len(chunks)}

\* C25 as stated: indexing a resume id again with the same participant and
\* the same text, when the collection holds the fragments of one such
\* indexing, overwrites them and adds none: the collection holds the same
\* number of fragments for that id, with the same contents, as before.
C25_ReindexAddsNothing ==
  [][\A u \in Users, t \in ResumeTexts, r \in ResumeIds :
       (IndexedOnce(u, t, r) /\ IndexResume(u, t, r, TRUE, TRUE, TRUE) /\ index_ok' = "true")
         => /\ Cardinality(StoredFragments(points', r)) = Cardinality(StoredFragments(points, r))
            /\ {Payload(p) : p \in StoredFragments(points', r)} =
                 {Payload(p) : p \in StoredFragments(points, r)}]_vars

\* C26: without a vector store client index_resume returns failure and a
\* search returns the empty list, embed_text is not called and the
\* collection and the bound participant stay as they were constructed.
C26_NoStoreNoEffect ==
  ~qdrant_configured =>
    /\ last_op = "index" => index_ok = "false"
    /\ index_ok # "true"
    /\ results = <<>>
    /\ embed_log = "none"
    /\ points = {}
    /\ current_user_name = ""

\* Without a client, a resume was given for indexing and then searched for.
C26_Witness ==
  /\ ~qdrant_configured
  /\ index_ok = "false"
  /\ last_op = "search"
  /\ query_user = "A"

\* C27 as stated: when embed_text raised in the last index or search, the
\* caller got something else than the plain failure of index_resume and
\* something else than the empty list of a search.
C27_EmbeddingFailureDistinct ==
  embed_log = "failed" =>
    /\ last_op = "index" => index_ok # "false"
    /\ last_op = "search" => results # <<>>

\* C28: search_candidate_info returns the sentence for no bound participant
\* when none is set, and then searches nothing; else the sentence for
\* nothing found when the search returns no result; else the texts of the
\* results, at most five, in the order of the search, each cut to at most
\* 300 characters. It returns one of the three in every case.
C28_ToolOutput ==
  [][\A caller \in Users, q \in ToolQueries, e \in BOOLEAN :
       SearchCandidateInfo(caller, q, e) =>
         IF current_user_name = ""
           THEN tool_out'.kind = "no_identity" /\ last_op' = last_op /\ results' = results
           ELSE IF results' = <<>>
             THEN tool_out'.kind = "nothing_found"
             ELSE /\ tool_out'.kind = "results"
                  /\ Len(tool_out'.texts) = Len(results')
                  /\ Len(tool_out'.texts) <= ToolTopK
                  /\ \A i \in 1..Len(results') :
                       /\ tool_out'.texts[i].of = results'[i].text
                       /\ tool_out'.texts[i].len <= MaxResultChars
                       /\ tool_out'.texts[i].len <= JoinedLen(results'[i].text)
                       /\ tool_out'.texts[i].len = MaxResultChars
                            \/ tool_out'.texts[i].len = JoinedLen(results'[i].text)]_vars

\* The tool returned five cut texts of a participant with six fragments.
C28_Witness ==
  /\ tool_out.kind = "results"
  /\ Len(tool_out.texts) = ToolTopK
  /\ Cardinality(Matching(points, query_user, "resume")) > ToolTopK
  /\ \E i \in 1..Len(tool_out.texts) : tool_out.texts[i].len < JoinedLen(results[i].text)

\* C30 as stated: when every session that runs in the process has bound
\* its participant at its start, the results of a tool call made in the
\* session of a participant are fragments of that participant.
C30_ToolSearchesAsCaller ==
  (tool_out.kind = "results" /\ \A u \in Users : tool_sessions[u] # "started")
    => \A i \in 1..Len(results) : results[i].user_name = tool_caller

\* C29: the transcript is append-only: every step leaves the entries it
\* held where they were and as they were, and puts what it records at the
\* end, so the entries stand in the order in which the handlers that saw
\* the turns complete ran.
C29_TranscriptAppendOnly ==
  [][/\ Len(transcript') >= Len(transcript)
     /\ SubSeq(transcript', 1, Len(transcript)) = transcript]_vars

\* A participant turn and the reply to it were recorded while the greeting
\* was spoken, then the greeting, then the summary.
C29_Witness ==
  /\ Len(transcript) >= 5
  /\ transcript[1] = Entry("user", "turn")
  /\ transcript[2] = Entry("assistant", "reply")
  /\ transcript[3] = Entry("assistant", "greeting")
  /\ transcript[Len(transcript)] = Entry("assistant", "summary")

\* C31 as stated: the statement that the feedback has been saved is spoken
\* by an invocation of the pipeline only when its save of the report
\* returned.
C31_SavedSpokenOnlyAfterSave ==
  \A i \in said_saved : fsave[i] = "ok"

\* The entries of the transcript that record an utterance of the given kind.
EntriesOf(kind) == {k \in 1..Len(transcript) : transcript[k] = Entry("assistant", kind)}

\* C32 as stated: in mock-interview mode the greeting, once spoken, is one
\* entry of the transcript, and the entries for summaries are as many as
\* the summaries that were spoken.
C32_UtteranceRecordedOnce ==
  /\ (IsMock /\ epc = "ready") => Cardinality(EntriesOf("greeting")) = 1
  /\ Cardinality(EntriesOf("greeting")) <= openings
  /\ Cardinality(EntriesOf("summary")) = Cardinality(said_saved)

\* The last thing the transcript records is a participant turn and the
\* reply to the last participant turn has not been spoken: no utterance of
\* the agent other than a silence prompt has completed since that turn.
NoUtteranceSinceTurn ==
  /\ IsMock
  /\ reply_pending
  /\ transcript # <<>>
  /\ transcript[Len(transcript)] = Entry("user", "turn")

\* C33 as stated: after a participant turn has completed no silence prompt
\* starts until an utterance of the agent other than a silence prompt has
\* completed.
C33_NoPromptAfterTurn ==
  [][NoUtteranceSinceTurn => ~PromptStarts]_vars

\* C34: a silence prompt starts only when the session is running, the
\* participant is not marked as speaking, the timestamp is set and at least
\* 5 seconds old and no prompt is in flight; the timestamp is not set, and
\* so no prompt starts, before the session has been started and something
\* of the agent was spoken.
C34_PromptOnlyWhenDue ==
  /\ [][PromptStarts =>
          /\ is_running
          /\ ~user_is_speaking
          /\ IsSet(last_question_time)
          /\ Age(last_question_time) >= SilenceThreshold
          /\ ~is_checking_silence /\ prompts_in_flight = 0
          /\ openings >= 1]_vars
  /\ [](openings = 0 => (last_question_time = None /\ prompts_in_flight = 0))

\* The first silence prompt of a session is in flight, started 5 seconds
\* after the greeting ended.
C34_Witness ==
  /\ mon_pc = "say" /\ attempt_age = Some(0)
  /\ since_prompt = None /\ ~last_attempt_failed
  /\ last_question_time = Some(SilenceThreshold)
  /\ epc = "ready" /\ is_running /\ ~reply_pending

\* A silence-prompt attempt ends, by return or by exception.
AttemptEnds == mon_pc = "say" /\ mon_pc' # "say"

\* C35: the in-flight flag is set only while the monitor awaits its prompt,
\* and every end of an attempt clears it; a failed attempt leaves the
\* timestamp as it was, and the next iteration of the monitor, the session
\* running, the participant not marked as speaking and the timestamp still
\* due, starts the prompt again.
C35_FlagClearedAndRetry ==
  /\ [](is_checking_silence => mon_pc = "say")
  /\ [][AttemptEnds => ~is_checking_silence']_vars
  /\ [][PromptFailed => last_question_time' = last_question_time]_vars
  /\ [][(/\ last_attempt_failed
          /\ MonitorIteration
          /\ is_running /\ ~user_is_speaking
          /\ IsSet(last_question_time) /\ Age(last_question_time) >= SilenceThreshold)
         => PromptStarts]_vars

\* A prompt was retried after a failed attempt: the retry is in flight, the
\* timestamp older than it was when the first attempt started.
C35_Witness ==
  /\ mon_pc = "say" /\ attempt_age = Some(0) /\ is_checking_silence
  /\ since_prompt = None
  /\ IsSet(last_question_time) /\ Age(last_question_time) > SilenceThreshold

\* C36 as stated: the fragments the collection holds for a resume id are
\* those of one indexing, the latest: as many as that indexing counted, all
\* with that count and for the same participant; and a search returns no
\* fragment of an earlier indexing of the id.
C36_ReindexSupersedes ==
  /\ \A r \in ResumeIds : \A p, q \in StoredFragments(points, r) :
       /\ p.total_chunks = Cardinality(StoredFragments(points, r))
       /\ p.total_chunks = q.total_chunks
       /\ p.user_name = q.user_name
  /\ \A i, j \in 1..Len(results) :
       results[i].resume_id = results[j].resume_id
         => results[i].total_chunks = results[j].total_chunks

C38_NoEmptyFragment ==
  \A k \in 1..Len(chunks_out) : Paragraphs(chunks_out[k]) # <<>>

\* The lines that follow line i of the text up to the next heading.
RECURSIVE LinesUnder(_, _)
LinesUnder(lines, i) ==
  IF i + 1 > Len(lines) \/ IsHeader(lines[i + 1])
    THEN <<>>
    ELSE <<lines[i + 1]>> \o LinesUnder(lines, i + 1)

\* C39 as stated: every heading of the text has an entry under its title
\* whose body is the lines that follow the heading up to the next heading
\* (blank lines at its ends apart), and the dict has no other entry.
C39_SectionPerHeading ==
  /\ \A i \in 1..Len(extract_in) :
       IsHeader(extract_in[i]) =>
         /\ HeaderTitle(extract_in[i]) \in DOMAIN extract_out
         /\ extract_out[HeaderTitle(extract_in[i])] = JoinStrip(LinesUnder(extract_in, i))
  /\ \A title \in DOMAIN extract_out :
       \E i \in 1..Len(extract_in) :
         IsHeader(extract_in[i]) /\ HeaderTitle(extract_in[i]) = title

\* C40: a resume uploaded without a user name is indexed at most once:
\* create_interview_room takes it out of pending_resumes when it starts
\* the indexing, and a create-room request whose resume id is not pending
\* starts no indexing.
C40_PendingIndexedOnce ==
  /\ [](\A r \in ResumeIds : index_started[r] <= 1)
  /\ [](\A r \in pending_resumes : index_started[r] = 0)
  /\ [][\A r \in ResumeIds, u \in RequestNames :
          CreateInterviewRoom(r, u) =>
            /\ r \notin pending_resumes'
            /\ r \notin pending_resumes => index_started' = index_started]_vars
C40_Witness ==
  \E r \in ResumeIds :
    /\ r \in uploaded
    /\ r \notin pending_resumes
    /\ room_requests[r] = 2
    /\ index_started[r] = 1
    /\ \E o \in ResumeIds : o \in pending_resumes

====
